---- MODULE Spec2Model ----
(***************************************************************************)
(* A model of the two executors of covalent-ecs-plugin: ECSExecutor         *)
(* (src/covalent_ecs_plugin/ecs.py) and FargateExecutor                     *)
(* (src/covalent_fargate_plugin/fargate.py).  One invocation of execute is  *)
(* a sequential flow: account lookup, package and upload, task-definition   *)
(* registration, task launch, the poll loop over get_status, and result     *)
(* retrieval.  get_status, _poll_ecs_task and _query_result are the same    *)
(* code in both files; the executors differ in the account lookup and in    *)
(* _package_and_upload.  The remote execution service (the tasks and the    *)
(* paginated listing of stopped tasks) is the environment.  ECSExecutor.run *)
(* is a stub (pass) that execute never calls; the invocation modelled is    *)
(* execute.                                                                 *)
(***************************************************************************)
EXTENDS Integers, Sequences, FiniteSets, TLC

VARIABLES
    variant,    \* which executor runs: ECSExecutor or FargateExecutor
    pc,         \* position of the flow inside execute
    poll_freq,  \* self.poll_freq
    network,    \* <<self.ecs_task_subnets, self.ecs_task_security_groups>>
    task_arn,   \* execute's local task_arn ("" before the launch)
    status,     \* _poll_ecs_task's local status ("" before the first query)
    exit_code,  \* _poll_ecs_task's local exit_code
    tasks,      \* the execution service: ARN -> task record
    pages,      \* the execution service: pages of list_tasks(desiredStatus=STOPPED)
    n,          \* how many times each call was made (observation only)
    calls,      \* the calls of the flow in the order of their first occurrence
    slept,      \* the arguments time.sleep was called with
    local_result, \* whether the local staging copy of the result artifact exists
    outcome,    \* how the invocation ended
    requests,   \* the requests the execution service received, in order
    \* Several invocations of execute (flows) in one process:
    mode,       \* how the caller runs the flows: a thread each, or one thread
    identity,   \* flow -> <<dispatch_id, node_id>>
    settings,   \* flow -> <<self.credentials, self.profile>> of its executor
    fpc,        \* flow -> position of the flow inside execute
    names,      \* flow -> the names execute derives from the identity
    environ,    \* os.environ: <<AWS_SHARED_CREDENTIALS_FILE, AWS_PROFILE>>
    client,     \* flow -> the settings its ecs client was created under
    used,       \* flow -> the last remote call of the flow and the settings it ran under
    revisions,  \* the revisions of the task-definition family: who registered each
    launched,   \* flow -> the flow whose revision its task runs
    thread,     \* the flow that occupies the shared thread
    \* cancel called while one invocation polls:
    honours,    \* whether the execution service acts on stop requests
    cancels,    \* the calls of cancel: handle, reason, and where the flow was
    \* The local helpers, each followed on its own:
    candidate,  \* the identifier handed to a format check, as its parts
    verdict,    \* which format check ran on the candidate and what it returned
    upc,        \* position inside _package_and_upload
    files,      \* the local files that exist in the cache and results directories
    stream,     \* the events get_log_events returned
    cursor,     \* how many of the events the formatting loop has taken
    log_events, \* _query_result's local log_events
    builds,     \* the task definitions built so far, each with what it was built from
    store,      \* the objects of the S3 bucket, each a key and a body
    run,        \* the run that uses the bucket: its position, inputs and what it read
    arguments,  \* the arguments of a constructor call, each given or left out
    self        \* the executor the constructor made, once it has

\* What the constructor sets and execute never changes.
config == <<variant, poll_freq, network>>

\* The state of the flows of one process.
procvars == <<mode, identity, settings, fpc, names, environ, client, used,
              revisions, launched, thread>>

\* The state of the callers of cancel and of the service they talk to.
cancelvars == <<honours, cancels>>

\* The state of the local helpers.
localvars == <<candidate, verdict, upc, files, stream, cursor, log_events>>

\* The task definitions built.
buildvars == <<builds>>

\* The bucket and the run that uses it.
storevars == <<store, run>>

\* A constructor call and the executor it makes.
ctorvars == <<arguments, self>>

\* The state of the further parts followed on their own.
extravars == <<buildvars, storevars, ctorvars>>

\* The state of the single invocation that the flow actions below follow.
flowvars == <<pc, poll_freq, task_arn, status, exit_code, tasks, pages, n, calls,
              slept, local_result, outcome>>

vars == <<variant, pc, poll_freq, task_arn, status, exit_code, tasks, pages, n, calls,
          slept, local_result, outcome, network, requests, procvars, cancelvars,
          localvars, extravars>>

-----------------------------------------------------------------------------
(* Bounds of the model *)

\* cancel is called at most MaxCancels times.
MaxCancels == 1
\* Counters stop counting at MaxCount (the poll loop itself has no bound).
MaxCount == 3
\* The stopped-task listing has at most MaxPages pages.
MaxPages == 2
\* The log service returns at most MaxEvents events.
MaxEvents == 3
\* At most MaxBuilds task definitions are built.
MaxBuilds == 2

(* Values of the program *)

\* The two executors of the repository: ECSExecutor (covalent_ecs_plugin/ecs.py)
\* and FargateExecutor (covalent_fargate_plugin/fargate.py).
Variants == {"ecs", "fargate"}

\* _EXECUTOR_PLUGIN_DEFAULTS["ecs_cluster_name"], ["ecs_task_family_name"]
ecs_cluster_name == "covalent-fargate-cluster"
ecs_task_family_name == "covalent-fargate-tasks"

\* The subnet and security-group settings: well-formed identifiers, the
\* default (the empty string) and an identifier one hex digit short.
SubnetSettings == {"subnet-871545e1", "", "subnet-871545e"}
GroupSettings == {"sg-0043541a", "", "sg-0043541"}

\* _EXECUTOR_PLUGIN_DEFAULTS["poll_freq"] of the two executors
PollFreqs == {10, 30}

\* The handle the launch returns, and the handle of another task of the family.
TaskArn == "task-arn/123"
OtherArn == "task-arn/456"
ARNs == {TaskArn, OtherArn}

\* The lifecycle of an ECS task, as listed in the source.
Lifecycle == <<"PROVISIONING", "PENDING", "ACTIVATING", "RUNNING",
               "DEACTIVATING", "STOPPING", "DEPROVISIONING", "STOPPED">>
\* Every lastStatus value a describe_tasks reply carries in the model: the
\* lifecycle and one string outside it.
Statuses == {Lifecycle[i] : i \in DOMAIN Lifecycle} \cup {"FAILED"}

\* Exit codes a container reports.
ExitCodes == {0, 1, 137}

\* The "containers" part of a task of a describe_tasks reply: the key may be
\* missing, the list may be empty, the first container may lack "exitCode".
ContainerShapes ==
    {[hasContainers |-> FALSE, containers |-> <<>>],
     [hasContainers |-> TRUE, containers |-> <<>>],
     [hasContainers |-> TRUE,
      containers |-> <<[hasExitCode |-> FALSE, exitCode |-> 0]>>]}
    \cup {[hasContainers |-> TRUE,
           containers |-> <<[hasExitCode |-> TRUE, exitCode |-> e]>>] : e \in ExitCodes}

NoTask == [exists |-> FALSE, lastStatus |-> "", hasContainers |-> FALSE,
           containers |-> <<>>]

TaskRecords ==
    {[exists |-> TRUE, lastStatus |-> s, hasContainers |-> c.hasContainers,
      containers |-> c.containers] : s \in Statuses, c \in ContainerShapes}

\* Another flow's task of the same family: stopped, exit code 0.
OtherTask == [exists |-> TRUE, lastStatus |-> "STOPPED", hasContainers |-> TRUE,
              containers |-> <<[hasExitCode |-> TRUE, exitCode |-> 0]>>]

\* One page of list_tasks: its "taskArns".
PageShapes == {<<>>, <<TaskArn>>, <<OtherArn>>, <<OtherArn, TaskArn>>}

ArnsOf(page) == {page[i] : i \in DOMAIN page}

ListedArns(pp) == UNION {ArnsOf(pp[i]) : i \in DOMAIN pp}

\* No ARN is listed twice.
NoRepeat(pp) ==
    \A i, j \in DOMAIN pp : i # j => ArnsOf(pp[i]) \cap ArnsOf(pp[j]) = {}

RECURSIVE ListingsOfLen(_)
ListingsOfLen(k) ==
    IF k = 0 THEN {<<>>}
    ELSE {pp \in {Append(l, p) : l \in ListingsOfLen(k - 1), p \in PageShapes} :
            NoRepeat(pp)}

\* Every listing the paginator can yield in the model.
Listings == UNION {ListingsOfLen(k) : k \in 0..MaxPages}

-----------------------------------------------------------------------------
(* get_status *)

\* ecs.describe_tasks(cluster, tasks=page["taskArns"])["tasks"]
describe_tasks(tk, page) ==
    [i \in DOMAIN page |->
        [taskArn |-> page[i], lastStatus |-> tk[page[i]].lastStatus,
         hasContainers |-> tk[page[i]].hasContainers,
         containers |-> tk[page[i]].containers]]

\* A variant of FindTask: the first task of a page is taken for the tracked one.
FindTask_First(ts, arn, i) == IF Len(ts) = 0 THEN 0 ELSE 1

\* for task in tasks: if task["taskArn"] == task_arn -- the index of the first
\* match, 0 when there is none
RECURSIVE FindTask(_, _, _)
FindTask(ts, arn, i) ==
    IF i > Len(ts) THEN 0
    ELSE IF ts[i].taskArn = arn THEN i
    ELSE FindTask(ts, arn, i + 1)

\* try: exit_code = int(task["containers"][0]["exitCode"])
\* except KeyError: exit_code = -1
\* A missing key raises KeyError, which is caught; an empty list raises
\* IndexError, which is not.
ExitCodeOf(task) ==
    IF ~task.hasContainers THEN [raised |-> "", exit_code |-> -1]
    ELSE IF Len(task.containers) = 0 THEN [raised |-> "IndexError", exit_code |-> -1]
    ELSE IF ~task.containers[1].hasExitCode THEN [raised |-> "", exit_code |-> -1]
    ELSE [raised |-> "", exit_code |-> task.containers[1].exitCode]

\* A variant of NotFoundReply: a handle that is not found is an error.
NotFoundReply_Raises == [raised |-> "KeyError", status |-> "", exit_code |-> -1]

NotFoundReply == [raised |-> "", status |-> "TASK_NOT_FOUND", exit_code |-> -1]

\* A variant of FoundReply: the status is collapsed before it is returned.
FoundReply_Collapsed(task) ==
    LET e == ExitCodeOf(task)
    IN  IF e.raised # "" THEN [raised |-> e.raised, status |-> "", exit_code |-> -1]
        ELSE [raised |-> "",
              status |-> IF task.lastStatus = "STOPPED" THEN "STOPPED" ELSE "IN_PROGRESS",
              exit_code |-> e.exit_code]

\* status = task["lastStatus"]; ...; return status, exit_code
FoundReply(task) ==
    LET e == ExitCodeOf(task)
    IN  IF e.raised # "" THEN [raised |-> e.raised, status |-> "", exit_code |-> -1]
        ELSE [raised |-> "", status |-> task.lastStatus, exit_code |-> e.exit_code]

\* A variant of EmptyPageBreaks: an empty page is passed over and the next page
\* is read.
EmptyPageBreaks_Continues(page) == FALSE

\* if len(page["taskArns"]) == 0: break
EmptyPageBreaks(page) == Len(page) = 0

\* for page in page_iterator: ...  return ("TASK_NOT_FOUND", -1)
RECURSIVE ScanPages(_, _, _, _)
ScanPages(tk, pp, arn, i) ==
    IF i > Len(pp) THEN NotFoundReply
    ELSE IF EmptyPageBreaks(pp[i]) THEN NotFoundReply
    ELSE LET ts == describe_tasks(tk, pp[i])
             k == FindTask(ts, arn, 1)
         IN  IF k # 0 THEN FoundReply(ts[k])
             ELSE ScanPages(tk, pp, arn, i + 1)

get_status(tk, pp, arn) == ScanPages(tk, pp, arn, 1)

-----------------------------------------------------------------------------
(* The flow *)

Inc(x) == IF x < MaxCount THEN x + 1 ELSE x

Count(c) == [n EXCEPT ![c] = Inc(n[c])]

Called(c) == IF \E i \in DOMAIN calls : calls[i] = c THEN calls ELSE Append(calls, c)

NoOutcome == [kind |-> "none", result |-> "", logs |-> "", stderr |-> "",
              exc |-> "", code |-> 0]

Returned(result, logs, stderr) ==
    [kind |-> "returned", result |-> result, logs |-> logs, stderr |-> stderr,
     exc |-> "", code |-> 0]

Raised(exc, code) ==
    [kind |-> "raised", result |-> "", logs |-> "", stderr |-> "",
     exc |-> exc, code |-> code]

\* self.ecs_task_subnets.split(","): the settings of the model hold no comma,
\* so the list has the whole string as its one element (the empty string too).
split(str) == <<str>>

\* A request as the execution service receives it.  name is the family of a
\* registration or a launch and the task of a stop request; count, network
\* and reason are the arguments of the calls that have them.
RegisterRequest ==
    [op |-> "register_task_definition", cluster |-> "",
     name |-> ecs_task_family_name, launchType |-> "FARGATE", count |-> 0,
     network |-> <<>>, reason |-> ""]

\* A variant of RunTaskRequest: two instances are asked for.
RunTaskRequest_CountTwo(net) ==
    [op |-> "run_task", cluster |-> ecs_cluster_name,
     name |-> ecs_task_family_name, launchType |-> "FARGATE", count |-> 2,
     network |-> <<split(net[1]), split(net[2])>>, reason |-> ""]

RunTaskRequest(net) ==
    [op |-> "run_task", cluster |-> ecs_cluster_name,
     name |-> ecs_task_family_name, launchType |-> "FARGATE", count |-> 1,
     network |-> <<split(net[1]), split(net[2])>>, reason |-> ""]

\* The flows of one process: two invocations of execute.
Flows == {"f1", "f2"}

\* Task identities: dispatch ids with and without a trailing '-', node ids
\* with the default -1.
DispatchIds == {"a", "a-"}
NodeIds == {-1, 1}
Identities == DispatchIds \X NodeIds

\* <<credentials, profile>> of an executor.
Settings == {<<"~/.aws/credentials", "dev">>, <<"/srv/aws/credentials", "prod">>}

\* os.environ before any flow has set it.
Ambient == <<"~/.aws/credentials", "">>

NoNames == [func |-> "", result |-> "", image_tag |-> "", container |-> ""]

\* No flow of the process model has started.
NoFlows ==
    /\ mode = "threads"
    /\ identity = [f \in Flows |-> <<"a", -1>>]
    /\ settings = [f \in Flows |-> <<"~/.aws/credentials", "dev">>]
    /\ fpc = [f \in Flows |-> "idle"]
    /\ names = [f \in Flows |-> NoNames]
    /\ environ = Ambient
    /\ client = [f \in Flows |-> <<>>]
    /\ used = [f \in Flows |-> <<>>]
    /\ revisions = <<>>
    /\ launched = [f \in Flows |-> ""]
    /\ thread = ""

\* cancel has not been called.
NoCancels ==
    /\ honours = FALSE
    /\ cancels = <<>>

NoCandidate == [prefix |-> <<>>, body |-> <<>>]

NoVerdict == [check |-> "", ok |-> FALSE]

\* No local helper is being followed.
NoLocal ==
    /\ candidate = NoCandidate
    /\ verdict = NoVerdict
    /\ upc = "start"
    /\ files = {}
    /\ stream = <<>>
    /\ cursor = 0
    /\ log_events = ""

NoBuild == builds = <<>>

\* A place that holds no value yet.
Nothing == [t |-> "none", v |-> 0]

\* The bucket is empty and no run has used it.
NoStore ==
    /\ store = {}
    /\ run = [pc |-> "idle", identity |-> <<"", 0>>, call |-> Nothing,
              fetched |-> Nothing, result |-> Nothing, retrieved |-> Nothing]

\* What Python takes for false among the values of each option.
Falsy == [poll_freq |-> 0, vcpu |-> 0, profile |-> "", s3_bucket_name |-> ""]

\* No constructor call is being followed: nothing is passed.
NoCtor ==
    /\ arguments = [o \in DOMAIN Falsy |-> [given |-> FALSE, value |-> Falsy[o]]]
    /\ self = <<>>

\* None of the further parts is being followed.
NoExtra == NoBuild /\ NoStore /\ NoCtor

\* No invocation of execute has begun and cancel has not been called.
NoRun ==
    /\ pc = "idle"
    /\ poll_freq = 10
    /\ network = <<"subnet-871545e1", "sg-0043541a">>
    /\ requests = <<>>
    /\ task_arn = ""
    /\ status = ""
    /\ exit_code = -1
    /\ tasks = [a \in ARNs |-> IF a = OtherArn THEN OtherTask ELSE NoTask]
    /\ pages = <<>>
    /\ n = [upload |-> 0, register |-> 0, run_task |-> 0, get_status |-> 0,
            not_stopped |-> 0, sleep |-> 0, download |-> 0, logs |-> 0]
    /\ calls = <<>>
    /\ slept = {}
    /\ local_result = FALSE
    /\ outcome = NoOutcome
    /\ NoFlows
    /\ NoCancels

\* A variant of StopRequest: the reason is left at its default.
StopRequest_DefaultReason(task, reason) ==
    [op |-> "stop_task", cluster |-> ecs_cluster_name, name |-> task,
     launchType |-> "", count |-> 0, network |-> <<>>, reason |-> "None"]

\* ecs.stop_task(cluster=self.ecs_cluster_name, task=task_arn, reason=reason)
StopRequest(task, reason) ==
    [op |-> "stop_task", cluster |-> ecs_cluster_name, name |-> task,
     launchType |-> "", count |-> 0, network |-> <<>>, reason |-> reason]

Init ==
    /\ variant \in Variants
    /\ pc = "idle"
    /\ poll_freq \in PollFreqs
    /\ network = <<"subnet-871545e1", "sg-0043541a">>
    /\ requests = <<>>
    /\ task_arn = ""
    /\ status = ""
    /\ exit_code = -1
    /\ tasks = [a \in ARNs |-> IF a = OtherArn THEN OtherTask ELSE NoTask]
    /\ pages = <<>>
    /\ n = [upload |-> 0, register |-> 0, run_task |-> 0, get_status |-> 0,
            not_stopped |-> 0, sleep |-> 0, download |-> 0, logs |-> 0]
    /\ calls = <<>>
    /\ slept = {}
    /\ local_result = FALSE
    /\ outcome = NoOutcome
    /\ NoFlows
    /\ NoCancels
    /\ NoLocal
    /\ NoExtra

-----------------------------------------------------------------------------
(* execute *)

\* ECSExecutor.execute up to the account check:
\*   identity, account = self._get_aws_account()
\*   if account is None: return None, "", identity
\* FargateExecutor.execute looks the account up later, before the registration.
execute_begin ==
    /\ pc = "idle"
    /\ \/ /\ pc' = "upload"
          /\ UNCHANGED outcome
       \/ /\ variant = "ecs"
          /\ pc' = "done"
          /\ outcome' = Returned("None", "", "identity")
       \/ /\ variant = "ecs"
          /\ pc' = "done"
          /\ outcome' = Raised("ClientError", 0)
    /\ UNCHANGED <<config, localvars, extravars, procvars, cancelvars, requests, task_arn, status, exit_code, tasks, pages, n, calls,
                   slept, local_result>>

\* A variant of package_and_upload: a failed upload is tried again.
package_and_upload_Retries ==
    /\ pc = "upload"
    /\ n' = Count("upload")
    /\ calls' = Called("upload")
    /\ \/ /\ pc' = "upload"
          /\ UNCHANGED outcome
       \/ /\ variant = "ecs"
          /\ pc' = "done"
          /\ outcome' = Raised("TypeError", 0)
       \/ /\ variant = "fargate"
          /\ pc' = "done"
          /\ outcome' = Raised("DockerError", 0)
       \/ /\ variant = "fargate"
          /\ pc' = "register"
          /\ UNCHANGED outcome
    /\ UNCHANGED <<config, localvars, extravars, procvars, cancelvars, requests, task_arn, status, exit_code, tasks, pages, slept,
                   local_result>>

\* ecr_repo_uri = self._package_and_upload(...): the call artifact is uploaded
\* to the object store, then the image is built and pushed.
package_and_upload ==
    /\ pc = "upload"
    /\ n' = Count("upload")
    /\ calls' = Called("upload")
    /\ \/ \* s3.upload_file raises
          /\ pc' = "done"
          /\ outcome' = Raised("ClientError", 0)
       \/ \* ECSExecutor: _format_exec_script is defined with three parameters
          \* and called with five arguments
          /\ variant = "ecs"
          /\ pc' = "done"
          /\ outcome' = Raised("TypeError", 0)
       \/ \* FargateExecutor: the image build, the registry login or the push raises
          /\ variant = "fargate"
          /\ pc' = "done"
          /\ outcome' = Raised("DockerError", 0)
       \/ /\ variant = "fargate"
          /\ pc' = "register"
          /\ UNCHANGED outcome
    /\ UNCHANGED <<config, localvars, extravars, procvars, cancelvars, requests, task_arn, status, exit_code, tasks, pages, slept,
                   local_result>>

\* A variant of register_task_definition: a rejected registration is tried
\* again.
register_task_definition_Retries ==
    /\ pc = "register"
    /\ \/ /\ variant = "fargate"
          /\ \E e \in {"ClientError", "KeyError"} : outcome' = Raised(e, 0)
          /\ pc' = "done"
          /\ UNCHANGED <<n, calls, requests>>
       \/ /\ n' = Count("register")
          /\ calls' = Called("register")
          /\ requests' = Append(requests, RegisterRequest)
          /\ pc' = IF n.register < MaxCount THEN "register" ELSE "run_task"
          /\ UNCHANGED outcome
       \/ /\ n' = Count("register")
          /\ calls' = Called("register")
          /\ requests' = Append(requests, RegisterRequest)
          /\ pc' = "run_task"
          /\ UNCHANGED outcome
    /\ UNCHANGED <<config, localvars, extravars, procvars, cancelvars, task_arn, status, exit_code, tasks, pages, slept,
                   local_result>>

\* ecs.register_task_definition(...); in FargateExecutor, after
\* account = boto3.client("sts").get_caller_identity()["Account"]
register_task_definition ==
    /\ pc = "register"
    /\ \/ \* the account lookup raises, or the identity has no "Account"
          /\ variant = "fargate"
          /\ \E e \in {"ClientError", "KeyError"} : outcome' = Raised(e, 0)
          /\ pc' = "done"
          /\ UNCHANGED <<n, calls, requests>>
       \/ /\ n' = Count("register")
          /\ calls' = Called("register")
          /\ requests' = Append(requests, RegisterRequest)
          /\ pc' = "done"
          /\ outcome' = Raised("ClientError", 0)
       \/ /\ n' = Count("register")
          /\ calls' = Called("register")
          /\ requests' = Append(requests, RegisterRequest)
          /\ pc' = "run_task"
          /\ UNCHANGED outcome
    /\ UNCHANGED <<config, localvars, extravars, procvars, cancelvars, task_arn, status, exit_code, tasks, pages, slept,
                   local_result>>

\* response = ecs.run_task(...); task_arn = response["tasks"][0]["taskArn"]
\* The service starts the task.  Its lifecycle and the eventually consistent
\* listing are outside the executor's control: by the first status query the
\* task is in any state and the listing has any shape.
run_task ==
    /\ pc = "run_task"
    /\ n' = Count("run_task")
    /\ calls' = Called("run_task")
    /\ requests' = Append(requests, RunTaskRequest(network))
    /\ \/ /\ \E a \in {x \in ARNs : ~tasks[x].exists} :
               \E r \in TaskRecords :
                  /\ tasks' = [tasks EXCEPT ![a] = r]
                  /\ task_arn' = a
          /\ pages' \in Listings
          /\ pc' = "poll"
          /\ UNCHANGED outcome
       \/ /\ pc' = "done"
          /\ outcome' = Raised("ClientError", 0)
          /\ UNCHANGED <<task_arn, tasks, pages>>
       \/ /\ pc' = "done"
          /\ outcome' = Raised("IndexError", 0)
          /\ UNCHANGED <<task_arn, tasks, pages>>
    /\ UNCHANGED <<config, localvars, extravars, procvars, cancelvars, status, exit_code, slept, local_result>>

(* _poll_ecs_task *)

\* A variant of ApiError: the failed call is answered as a task not found.
ApiError_NotFound == [raised |-> "", status |-> "TASK_NOT_FOUND", exit_code |-> -1]

\* The listing or describe call of a status query fails: get_status raises the
\* client's error.
ApiError == [raised |-> "ClientError", status |-> "", exit_code |-> -1]

\* Variants of LoopCondition: not-found ends the loop; nothing ends the loop;
\* the loop goes on only while the reply is a lifecycle state before STOPPED.
LoopCondition_NotFoundEnds(s) == s \notin {"STOPPED", "TASK_NOT_FOUND"}

LoopCondition_Always(s) == TRUE

LoopCondition_LifecycleOnly(s) ==
    s \in {Lifecycle[i] : i \in DOMAIN Lifecycle} \ {"STOPPED"}

\* while status != "STOPPED":
LoopCondition(s) == s # "STOPPED"

\* Variants of ExitCodeFails: only a positive exit code fails; only 1 fails.
ExitCodeFails_Positive(e) == e > 0

ExitCodeFails_OnlyOne(e) == e = 1

\* if exit_code != 0: raise Exception(f"Task failed with exit code {exit_code}.")
ExitCodeFails(e) == e # 0

\* A variant of SleepTime: the smallest default instead of the configured value.
SleepTime_Default == CHOOSE x \in PollFreqs : \A y \in PollFreqs : x <= y

\* time.sleep(self.poll_freq)
SleepTime == poll_freq

\* A variant of AssignReply: an exit code above 0 that an earlier reply
\* reported is kept.
AssignReply_KeepsFailure(reply, slept_first) ==
    /\ n' = [n EXCEPT !.get_status = Inc(@),
                      !.not_stopped = IF reply.raised = "" /\ reply.status # "STOPPED"
                                      THEN Inc(@) ELSE @,
                      !.sleep = IF slept_first THEN Inc(@) ELSE @]
    /\ calls' = Called("get_status")
    /\ IF reply.raised # ""
       THEN /\ pc' = "done"
            /\ outcome' = Raised(reply.raised, 0)
            /\ UNCHANGED <<status, exit_code>>
       ELSE /\ pc' = "loop"
            /\ status' = reply.status
            /\ exit_code' = IF exit_code > 0 THEN exit_code ELSE reply.exit_code
            /\ UNCHANGED outcome

\* status, exit_code = self.get_status(ecs, task_arn): the assignment, or the
\* error leaving the poll loop and execute.
AssignReply(reply, slept_first) ==
    /\ n' = [n EXCEPT !.get_status = Inc(@),
                      !.not_stopped = IF reply.raised = "" /\ reply.status # "STOPPED"
                                      THEN Inc(@) ELSE @,
                      !.sleep = IF slept_first THEN Inc(@) ELSE @]
    /\ calls' = Called("get_status")
    /\ IF reply.raised # ""
       THEN /\ pc' = "done"
            /\ outcome' = Raised(reply.raised, 0)
            /\ UNCHANGED <<status, exit_code>>
       ELSE /\ pc' = "loop"
            /\ status' = reply.status
            /\ exit_code' = reply.exit_code
            /\ UNCHANGED outcome

\* A variant of PolledArn: the loop asks for the other flow's handle.
PolledArn_Other == OtherArn

\* The handle whose status the poll loop asks for.
PolledArn == task_arn

\* status, exit_code = self.get_status(ecs, task_arn)   (before the loop)
poll_first ==
    /\ pc = "poll"
    /\ \/ \E reply \in {get_status(tasks, pages, PolledArn)} : AssignReply(reply, FALSE)
       \/ AssignReply(ApiError, FALSE)
    /\ UNCHANGED <<config, localvars, extravars, procvars, cancelvars, requests, task_arn, tasks, pages, slept, local_result>>

\* What the service does while the executor sleeps: nothing, or the task moves
\* (a stopped task stays as it is), or the listing changes.
RemoteStep ==
    \/ UNCHANGED <<tasks, pages>>
    \/ /\ tasks[task_arn].lastStatus # "STOPPED"
       /\ \E r \in TaskRecords \ {tasks[task_arn]} :
             tasks' = [tasks EXCEPT ![task_arn] = r]
       /\ UNCHANGED pages
    \/ /\ pages' \in Listings \ {pages}
       /\ UNCHANGED tasks

\* One turn of the loop: the test, the sleep, the next query.  A query whose
\* call fails reads nothing of the service's state.
poll_iteration ==
    /\ pc = "loop"
    /\ LoopCondition(status)
    /\ slept' = slept \cup {SleepTime}
    /\ \/ /\ RemoteStep
          /\ \E reply \in {get_status(tasks', pages', PolledArn)} :
                AssignReply(reply, TRUE)
       \/ /\ UNCHANGED <<tasks, pages>>
          /\ AssignReply(ApiError, TRUE)
    /\ UNCHANGED <<config, localvars, extravars, procvars, cancelvars, requests, task_arn, local_result>>

\* f"Task failed with exit code {exit_code}.": the pieces of the text of the
\* exception that _poll_ecs_task raises, the only thing the exception holds.
TaskFailedMessage(e) == <<"Task failed with exit code ", ToString(e), ".">>

\* The loop ends; the exit code decides.
poll_finish ==
    /\ pc = "loop"
    /\ ~LoopCondition(status)
    /\ IF ExitCodeFails(exit_code)
       THEN /\ pc' = "done"
            /\ outcome' = Raised("TaskFailed", exit_code)
       ELSE /\ pc' = "query_result"
            /\ UNCHANGED outcome
    /\ UNCHANGED <<config, localvars, extravars, procvars, cancelvars, requests, task_arn, status, exit_code, tasks, pages, n, calls,
                   slept, local_result>>

(* _query_result *)

\* The events get_log_events returns.
LogEvents == {<<>>, <<"hello", "world">>}

\* A variant of Line: the message alone.
Line_Bare(message) == message

\* event["message"] + "\n"
Line(message) == message \o "\n"

\* "".join(event["message"] + "\n" for event in events)
RECURSIVE FormatLogs(_)
FormatLogs(events) ==
    IF events = <<>> THEN ""
    ELSE Line(Head(events)) \o FormatLogs(Tail(events))

query_result ==
    /\ pc = "query_result"
    /\ pc' = "done"
    /\ calls' = Called("download")
    /\ \/ \* s3.download_file raises
          /\ n' = Count("download")
          /\ outcome' = Raised("ClientError", 0)
          /\ UNCHANGED local_result
       \/ \* pickle.load raises: os.remove is not reached
          /\ n' = Count("download")
          /\ outcome' = Raised("UnpicklingError", 0)
          /\ local_result' = TRUE
       \/ \* logs.get_log_events raises
          /\ n' = [n EXCEPT !.download = Inc(@), !.logs = Inc(@)]
          /\ outcome' = Raised("ClientError", 0)
          /\ local_result' = FALSE
       \/ \* return result, log_events, ""
          /\ n' = [n EXCEPT !.download = Inc(@), !.logs = Inc(@)]
          /\ \E events \in LogEvents :
                outcome' = Returned("RESULT", FormatLogs(events), "")
          /\ local_result' = FALSE
    /\ UNCHANGED <<config, localvars, extravars, procvars, cancelvars, requests, task_arn, status, exit_code, tasks, pages, slept>>

-----------------------------------------------------------------------------

Flow ==
    \/ execute_begin
    \/ package_and_upload
    \/ register_task_definition
    \/ run_task
    \/ poll_first
    \/ poll_iteration
    \/ poll_finish
    \/ query_result

Next == Flow

Spec == Init /\ [][Next]_vars

\* Whether the flow goes on does not depend on how long it sleeps: where only
\* progress is asked about, the poll frequency is held at ECSExecutor's default.
FairInit ==
    /\ Init
    /\ poll_freq = 10

\* Python runs the flow's statements one after the other: a call that is made
\* returns or raises, and time.sleep returns.
FairSpec == FairInit /\ [][Next]_vars /\ WF_vars(Flow)

TypeOK ==
    /\ variant \in Variants
    /\ pc \in {"idle", "upload", "register", "run_task", "poll", "loop",
               "query_result", "done"}
    /\ poll_freq \in PollFreqs
    /\ network \in SubnetSettings \X GroupSettings
    /\ task_arn \in ARNs \cup {""}
    /\ status \in Statuses \cup {"", "TASK_NOT_FOUND"}
    /\ exit_code \in ExitCodes \cup {-1}
    /\ pages \in Listings
    /\ outcome.kind \in {"none", "returned", "raised"}

-----------------------------------------------------------------------------
(* Several flows in one process.  Each flow is one invocation of execute, on an
   executor of its own with its own settings; the flows share os.environ, the
   task-definition family and, when the caller runs them on one thread, the
   thread.  The status replies are left open here: a poll is told to go on, to
   succeed or to fail. *)

\* A variant of Names: the image tag carries the profile of the environment.
Names_WithProfile(id) ==
    LET image_tag == id[1] \o "-" \o ToString(id[2]) \o environ[2]
    IN  [func |-> "func-" \o image_tag \o ".pkl",
         result |-> "result-" \o id[1] \o "-" \o ToString(id[2]) \o ".pkl",
         image_tag |-> image_tag,
         container |-> "covalent-task-" \o image_tag]

\* result_filename, image_tag, container_name of execute and func_filename of
\* _package_and_upload, as the f-strings build them.
Names(id) ==
    LET image_tag == id[1] \o "-" \o ToString(id[2])
    IN  [func |-> "func-" \o image_tag \o ".pkl",
         result |-> "result-" \o id[1] \o "-" \o ToString(id[2]) \o ".pkl",
         image_tag |-> image_tag,
         container |-> "covalent-task-" \o image_tag]

\* execute is a plain function: on a shared thread a flow that has started
\* keeps the thread until it returns or raises.
Runs(f) == mode = "threads" \/ thread \in {"", f}

Occupy(f, next) ==
    thread' = IF mode = "one_thread" /\ next # "done" THEN f ELSE ""

\* A flow moves on to next; its last remote call was call, made under sett.
Advance(f, next, call, sett) ==
    /\ fpc' = [fpc EXCEPT ![f] = next]
    /\ used' = [used EXCEPT ![f] = <<call, sett>>]
    /\ Occupy(f, next)

\* The names are derived, then
\*   os.environ["AWS_SHARED_CREDENTIALS_FILE"] = self.credentials
\*   os.environ["AWS_PROFILE"] = self.profile
flow_begin(f) ==
    /\ fpc[f] = "idle"
    /\ Runs(f)
    /\ names' = [names EXCEPT ![f] = Names(identity[f])]
    /\ environ' = settings[f]
    /\ fpc' = [fpc EXCEPT ![f] = "upload"]
    /\ Occupy(f, "upload")
    /\ UNCHANGED <<flowvars, cancelvars, localvars, extravars, variant, network, requests, mode, identity, settings,
                   client, used, revisions, launched>>

\* _package_and_upload.  ECSExecutor uploads with
\* boto3.Session(profile_name=self.profile) and then fails in
\* _format_exec_script; FargateExecutor uploads with boto3.client("s3").
flow_upload(f) ==
    /\ fpc[f] = "upload"
    /\ Runs(f)
    /\ \/ /\ variant = "ecs"
          /\ Advance(f, "done", "upload", <<environ[1], settings[f][2]>>)
       \/ /\ variant = "fargate"
          /\ Advance(f, "register", "upload", environ)
    /\ UNCHANGED <<flowvars, cancelvars, localvars, extravars, variant, network, requests, mode, identity, settings,
                   names, environ, client, revisions, launched>>

\* ecs = boto3.client("ecs"); ecs.register_task_definition(family=...): the
\* service adds a revision to the family.
flow_register(f) ==
    /\ fpc[f] = "register"
    /\ Runs(f)
    /\ client' = [client EXCEPT ![f] = environ]
    /\ revisions' = Append(revisions, f)
    /\ requests' = Append(requests, RegisterRequest)
    /\ Advance(f, "run_task", "register", environ)
    /\ UNCHANGED <<flowvars, cancelvars, localvars, extravars, variant, network, mode, identity, settings, names,
                   environ, launched>>

\* ecs.run_task(taskDefinition=self.ecs_task_family_name, ...): a family name
\* without a revision stands for the latest revision of the family.
flow_run_task(f) ==
    /\ fpc[f] = "run_task"
    /\ Runs(f)
    /\ launched' = [launched EXCEPT ![f] = revisions[Len(revisions)]]
    /\ requests' = Append(requests, RunTaskRequest(network))
    /\ Advance(f, "poll", "run_task", client[f])
    /\ UNCHANGED <<flowvars, cancelvars, localvars, extravars, variant, network, mode, identity, settings, names,
                   environ, client, revisions>>

\* status, exit_code = self.get_status(ecs, task_arn), with the ecs client of
\* the registration; then the loop test and the exit-code test.
flow_poll(f) ==
    /\ fpc[f] = "poll"
    /\ Runs(f)
    /\ \E next \in {"sleep", "download", "done"} :
          Advance(f, next, "get_status", client[f])
    /\ UNCHANGED <<flowvars, cancelvars, localvars, extravars, variant, network, requests, mode, identity, settings,
                   names, environ, client, revisions, launched>>

\* time.sleep(self.poll_freq) returns.
flow_sleep(f) ==
    /\ fpc[f] = "sleep"
    /\ Runs(f)
    /\ fpc' = [fpc EXCEPT ![f] = "poll"]
    /\ Occupy(f, "poll")
    /\ UNCHANGED <<flowvars, cancelvars, localvars, extravars, variant, network, requests, mode, identity, settings,
                   names, environ, client, used, revisions, launched>>

\* s3 = boto3.client("s3"); s3.download_file(...)
flow_download(f) ==
    /\ fpc[f] = "download"
    /\ Runs(f)
    /\ Advance(f, "logs", "download", environ)
    /\ UNCHANGED <<flowvars, cancelvars, localvars, extravars, variant, network, requests, mode, identity, settings,
                   names, environ, client, revisions, launched>>

\* logs = boto3.client("logs"); logs.get_log_events(...); return
flow_logs(f) ==
    /\ fpc[f] = "logs"
    /\ Runs(f)
    /\ Advance(f, "done", "logs", environ)
    /\ UNCHANGED <<flowvars, cancelvars, localvars, extravars, variant, network, requests, mode, identity, settings,
                   names, environ, client, revisions, launched>>

FlowStep(f) ==
    \/ flow_begin(f)
    \/ flow_upload(f)
    \/ flow_register(f)
    \/ flow_run_task(f)
    \/ flow_poll(f)
    \/ flow_sleep(f)
    \/ flow_download(f)
    \/ flow_logs(f)

ProcInit ==
    /\ variant \in Variants
    /\ pc = "idle"
    /\ poll_freq = 10
    /\ network \in SubnetSettings \X GroupSettings
    /\ requests = <<>>
    /\ task_arn = ""
    /\ status = ""
    /\ exit_code = -1
    /\ tasks = [a \in ARNs |-> IF a = OtherArn THEN OtherTask ELSE NoTask]
    /\ pages = <<>>
    /\ n = [upload |-> 0, register |-> 0, run_task |-> 0, get_status |-> 0,
            not_stopped |-> 0, sleep |-> 0, download |-> 0, logs |-> 0]
    /\ calls = <<>>
    /\ slept = {}
    /\ local_result = FALSE
    /\ outcome = NoOutcome
    /\ mode \in {"threads", "one_thread"}
    /\ identity \in [Flows -> Identities]
    /\ settings \in {st \in [Flows -> Settings] : st["f1"][2] = "dev"}
    /\ fpc = [f \in Flows |-> "idle"]
    /\ names = [f \in Flows |-> NoNames]
    /\ environ = Ambient
    /\ client = [f \in Flows |-> <<>>]
    /\ used = [f \in Flows |-> <<>>]
    /\ revisions = <<>>
    /\ launched = [f \in Flows |-> ""]
    /\ thread = ""
    /\ NoCancels
    /\ NoLocal
    /\ NoExtra

ProcNext == \E f \in Flows : FlowStep(f)

ProcSpec == ProcInit /\ [][ProcNext]_vars

-----------------------------------------------------------------------------
(* cancel, called from outside while one invocation polls its task.  The
   invocation is FargateExecutor's, taken up right after the launch; the
   service here moves the task only by letting it finish or by stopping it on
   request, and lists it among the stopped tasks once it has stopped. *)

\* The reasons a caller gives: the default and one of its own.
Reasons == {"None", "timeout"}

\* A variant of cancel: it also marks the polled task as stopped for the loop.
cancel_StopsLoop(task, reason) ==
    /\ Len(cancels) < MaxCancels
    /\ cancels' = Append(cancels, [task |-> task, reason |-> reason, at |-> pc])
    /\ requests' = Append(requests, StopRequest(task, reason))
    /\ status' = "STOPPED"
    /\ UNCHANGED <<config, localvars, extravars, procvars, honours, pc, task_arn, exit_code, tasks,
                   pages, n, calls, slept, local_result, outcome>>

\* def cancel(self, task_arn, reason="None"):
\*     ecs = boto3.client("ecs")
\*     ecs.stop_task(cluster=self.ecs_cluster_name, task=task_arn, reason=reason)
cancel(task, reason) ==
    /\ Len(cancels) < MaxCancels
    /\ cancels' = Append(cancels, [task |-> task, reason |-> reason, at |-> pc])
    /\ requests' = Append(requests, StopRequest(task, reason))
    /\ UNCHANGED <<config, localvars, extravars, procvars, honours, flowvars>>

\* The records of a task the service stopped on request: a nonzero exit code,
\* or none.
StoppedOnRequest ==
    {[exists |-> TRUE, lastStatus |-> "STOPPED", hasContainers |-> c.hasContainers,
      containers |-> c.containers] :
        c \in {x \in ContainerShapes : ~(/\ x.hasContainers
                                         /\ x.containers # <<>>
                                         /\ x.containers[1].hasExitCode
                                         /\ x.containers[1].exitCode = 0)}}

\* The task ends by itself with exit code 0.
service_finishes ==
    /\ task_arn # ""
    /\ tasks[task_arn].lastStatus # "STOPPED"
    /\ tasks' = [tasks EXCEPT ![task_arn] = OtherTask]
    /\ pages' = <<<<task_arn>>>>
    /\ UNCHANGED <<config, localvars, extravars, procvars, cancelvars, requests, pc, task_arn, status,
                   exit_code, n, calls, slept, local_result, outcome>>

\* The service acts on a stop request for the task.
service_stops ==
    /\ honours
    /\ task_arn # ""
    /\ \E i \in DOMAIN requests :
          requests[i].op = "stop_task" /\ requests[i].name = task_arn
    /\ tasks[task_arn].lastStatus # "STOPPED"
    /\ \E r \in StoppedOnRequest : tasks' = [tasks EXCEPT ![task_arn] = r]
    /\ pages' = <<<<task_arn>>>>
    /\ UNCHANGED <<config, localvars, extravars, procvars, cancelvars, requests, pc, task_arn, status,
                   exit_code, n, calls, slept, local_result, outcome>>

\* One turn of the poll loop; the service's moves are steps of their own here.
poll_quiet == poll_iteration /\ UNCHANGED <<tasks, pages>>

\* The task as the launch leaves it: running, not among the stopped tasks.
RunningTask ==
    [exists |-> TRUE, lastStatus |-> "RUNNING", hasContainers |-> TRUE,
     containers |-> <<[hasExitCode |-> FALSE, exitCode |-> 0]>>]

CancelInit ==
    /\ variant = "fargate"
    /\ pc = "poll"
    /\ poll_freq = 30
    /\ network = <<"subnet-871545e1", "sg-0043541a">>
    /\ requests = <<RegisterRequest, RunTaskRequest(network)>>
    /\ task_arn = TaskArn
    /\ status = ""
    /\ exit_code = -1
    /\ tasks = [a \in ARNs |-> IF a = OtherArn THEN OtherTask ELSE RunningTask]
    /\ pages \in {<<>>, <<<<OtherArn>>>>}
    /\ n = [upload |-> 1, register |-> 1, run_task |-> 1, get_status |-> 0,
            not_stopped |-> 0, sleep |-> 0, download |-> 0, logs |-> 0]
    /\ calls = <<"upload", "register", "run_task">>
    /\ slept = {}
    /\ local_result = FALSE
    /\ outcome = NoOutcome
    /\ NoFlows
    /\ honours \in BOOLEAN
    /\ cancels = <<>>
    /\ NoLocal
    /\ NoExtra

\* The steps of the invocation.
CancelFlow ==
    \/ poll_first
    \/ poll_quiet
    \/ poll_finish
    \/ query_result

CancelNext ==
    \/ CancelFlow
    \/ \E task \in ARNs, reason \in Reasons : cancel(task, reason)
    \/ service_finishes
    \/ service_stops

CancelSpec == CancelInit /\ [][CancelNext]_vars

\* The invocation's statements run one after the other; nothing obliges a
\* caller to cancel or the service to stop anything.
CancelFairSpec == CancelSpec /\ WF_vars(CancelFlow)

-----------------------------------------------------------------------------
(* The format check of the network placement.  An identifier is a string; the
   model writes it as the sequence of its characters, and keeps the candidate
   as the two parts it was put together from. *)

HexDigits == {"0", "1", "2", "3", "4", "5", "6", "7", "8", "9",
              "a", "b", "c", "d", "e", "f"}

\* The least number of hex characters after the prefix.
MinHexLen == 8

\* "subnet-" and "sg-"
SubnetPrefix == <<"s", "u", "b", "n", "e", "t", "-">>
GroupPrefix == <<"s", "g", "-">>

\* A variant of MatchesShape: only the prefix is looked at.
MatchesShape_PrefixOnly(id, prefix) ==
    /\ Len(id) >= Len(prefix)
    /\ SubSeq(id, 1, Len(prefix)) = prefix

\* The whole identifier is the prefix followed by hex characters, at least
\* MinHexLen of them.
MatchesShape(id, prefix) ==
    /\ Len(id) >= Len(prefix) + MinHexLen
    /\ SubSeq(id, 1, Len(prefix)) = prefix
    /\ \A i \in (Len(prefix) + 1)..Len(id) : id[i] \in HexDigits

is_valid_subnet_id(subnet_id) == MatchesShape(subnet_id, SubnetPrefix)

is_valid_security_group(security_group) == MatchesShape(security_group, GroupPrefix)

\* What a candidate starts with: the two prefixes, nothing, and the starts of
\* the identifiers the tests reject ("jlkjlkj871545e1", "80980043541").
Prefixes == {SubnetPrefix, GroupPrefix, <<>>,
             <<"j", "l", "k", "j", "l", "k", "j">>, <<"8", "0", "9", "8">>}

\* What follows: the hex strings of the tests with eight characters and with
\* seven, longer and shorter ones, and one with a character that is not hex.
Bodies == {<<"8", "7", "1", "5", "4", "5", "e", "1">>,
           <<"8", "7", "1", "5", "4", "5", "e">>,
           <<"0", "0", "4", "3", "5", "4", "1", "a">>,
           <<"0", "0", "4", "3", "5", "4", "1">>,
           <<"0", "0", "4", "3", "5", "4", "1", "a", "9">>,
           <<"8", "7", "1", "5", "4", "5", "g", "1">>,
           <<"8", "7", "1", "5", "4", "5">>,
           <<>>}

Candidates == [prefix : Prefixes, body : Bodies]

\* The identifier a candidate stands for.
Text(c) == c.prefix \o c.body

FormatInit ==
    /\ variant = "ecs"
    /\ NoRun
    /\ candidate \in Candidates
    /\ verdict = NoVerdict
    /\ upc = "start"
    /\ files = {}
    /\ stream = <<>>
    /\ cursor = 0
    /\ log_events = ""
    /\ NoExtra

check_subnet ==
    /\ verdict = NoVerdict
    /\ verdict' = [check |-> "subnet", ok |-> is_valid_subnet_id(Text(candidate))]
    /\ UNCHANGED <<config, flowvars, requests, procvars, cancelvars, extravars, candidate,
                   upc, files, stream, cursor, log_events>>

check_security_group ==
    /\ verdict = NoVerdict
    /\ verdict' = [check |-> "security_group",
                   ok |-> is_valid_security_group(Text(candidate))]
    /\ UNCHANGED <<config, flowvars, requests, procvars, cancelvars, extravars, candidate,
                   upc, files, stream, cursor, log_events>>

FormatNext ==
    \/ check_subnet
    \/ check_security_group

FormatSpec == FormatInit /\ [][FormatNext]_vars

-----------------------------------------------------------------------------
(* _package_and_upload and the local files it creates.  The three temporary
   files are tempfile.NamedTemporaryFile objects opened in with statements:
   leaving the block, normally or by an exception, closes and so deletes them.
   The copy of the Dockerfile is written with shutil.copyfile into the results
   directory. *)

\* The files of NamedTemporaryFile(dir=self.cache_dir).
TempFiles == {"function_file", "exec_script_file", "dockerfile_file"}

\* os.path.join(task_results_dir, f"Dockerfile_{image_tag}")
local_dockerfile == "local_dockerfile"

\* Files of other runs and of the user in the two directories.
ForeignFiles == {"tmpq3w1x9", "Dockerfile_b-1", "result-b-1.pkl", "notes.txt"}

\* A variant of CloseTemp: the files are closed and left on disk.
CloseTemp_Keeps(fs, closed) == fs

\* Leaving a with block closes its temporary files, which deletes them.
CloseTemp(fs, closed) == fs \ closed

UploadInit ==
    /\ variant \in Variants
    /\ NoRun
    /\ candidate = NoCandidate
    /\ verdict = NoVerdict
    /\ upc = "start"
    /\ files \in SUBSET ForeignFiles
    /\ stream = <<>>
    /\ cursor = 0
    /\ log_events = ""
    /\ NoExtra

\* The frame of the steps of _package_and_upload.
UploadFrame ==
    UNCHANGED <<config, flowvars, requests, procvars, cancelvars, extravars, candidate, verdict,
                stream, cursor, log_events>>

\* with tempfile.NamedTemporaryFile(dir=self.cache_dir) as function_file:
\*     pickle.dump(...); function_file.flush()
open_function_file ==
    /\ upc = "start"
    /\ files' = files \cup {"function_file"}
    /\ upc' = "function_file"
    /\ UploadFrame

\* The upload of the call artifact, which returns or raises, and the end of
\* the with block.
upload_function_file ==
    /\ upc = "function_file"
    /\ files' = CloseTemp(files, {"function_file"})
    /\ upc' \in {"uploaded", "failed"}
    /\ UploadFrame

\* with NamedTemporaryFile(...) as exec_script_file,
\*      NamedTemporaryFile(...) as dockerfile_file:
open_script_files ==
    /\ upc = "uploaded"
    /\ files' = files \cup {"exec_script_file", "dockerfile_file"}
    /\ upc' = "script_files"
    /\ UploadFrame

\* exec_script = self._format_exec_script(...) and the writes of the script and
\* of the Dockerfile.  ECSExecutor's call raises TypeError, which leaves the
\* with block.
write_script_files ==
    /\ upc = "script_files"
    /\ IF variant = "ecs"
       THEN /\ files' = CloseTemp(files, {"exec_script_file", "dockerfile_file"})
            /\ upc' = "failed"
       ELSE /\ files' = files
            /\ upc' = "written"
    /\ UploadFrame

\* shutil.copyfile(dockerfile_file.name, local_dockerfile), which raises when
\* the results directory does not exist.
copy_dockerfile ==
    /\ upc = "written"
    /\ \/ /\ files' = files \cup {local_dockerfile}
          /\ upc' = "copied"
       \/ /\ files' = CloseTemp(files, {"exec_script_file", "dockerfile_file"})
          /\ upc' = "failed"
    /\ UploadFrame

\* docker_client.images.build(...), which returns or raises, and the end of the
\* with block.
build_image ==
    /\ upc = "copied"
    /\ files' = CloseTemp(files, {"exec_script_file", "dockerfile_file"})
    /\ upc' \in {"built", "failed"}
    /\ UploadFrame

\* The registry login, the tag and the push; then return ecr_repo_uri.
push_image ==
    /\ upc = "built"
    /\ upc' \in {"returned", "failed"}
    /\ UNCHANGED files
    /\ UploadFrame

UploadNext ==
    \/ open_function_file
    \/ upload_function_file
    \/ open_script_files
    \/ write_script_files
    \/ copy_dockerfile
    \/ build_image
    \/ push_image

UploadSpec == UploadInit /\ [][UploadNext]_vars

-----------------------------------------------------------------------------
(* The formatting of the log events in _query_result.  ECSExecutor joins the
   lines in one expression; FargateExecutor appends them in a for loop. *)

\* The messages of the events.
Messages == {"hello", "world", ""}

RECURSIVE StreamsOfLen(_)
StreamsOfLen(k) ==
    IF k = 0 THEN {<<>>}
    ELSE {Append(s, msg) : s \in StreamsOfLen(k - 1), msg \in Messages}

\* What get_log_events(...)["events"] holds: up to MaxEvents events.
Streams == UNION {StreamsOfLen(k) : k \in 0..MaxEvents}

LogInit ==
    /\ variant \in Variants
    /\ NoRun
    /\ candidate = NoCandidate
    /\ verdict = NoVerdict
    /\ upc = "start"
    /\ files = {}
    /\ stream \in Streams
    /\ cursor = 0
    /\ log_events = ""
    /\ NoExtra

\* log_events = "".join(event["message"] + "\n" for event in events)
join_events ==
    /\ variant = "ecs"
    /\ cursor = 0
    /\ log_events' = FormatLogs(stream)
    /\ cursor' = Len(stream)
    /\ UNCHANGED <<config, flowvars, requests, procvars, cancelvars, extravars, candidate, verdict,
                   upc, files, stream>>

\* for event in events: log_events += event["message"] + "\n"
append_event ==
    /\ variant = "fargate"
    /\ cursor < Len(stream)
    /\ log_events' = log_events \o Line(stream[cursor + 1])
    /\ cursor' = cursor + 1
    /\ UNCHANGED <<config, flowvars, requests, procvars, cancelvars, extravars, candidate, verdict,
                   upc, files, stream>>

LogNext ==
    \/ join_events
    \/ append_event

LogSpec == LogInit /\ [][LogNext]_vars

-----------------------------------------------------------------------------
(* The task definition that execute hands to register_task_definition.  It is
   put together inside execute from the executor's settings, the names derived
   from the task identity, the account that the identity lookup returned and
   the registry endpoint that the authorization token of the image registry
   carries. *)

\* What sts.get_caller_identity()["Account"] returns.
Accounts == {"111111111111", "222222222222"}

\* What ecr.get_authorization_token() gives as proxyEndpoint: scheme and host.
Endpoints == {<<"https://", "111111111111.dkr.ecr.us-east-1.amazonaws.com">>,
              <<"https://", "222222222222.dkr.ecr.us-east-1.amazonaws.com">>}

\* ecr_registry.replace('https://', '')
StripScheme(endpoint) ==
    IF endpoint[1] = "https://" THEN endpoint[2] ELSE endpoint[1] \o endpoint[2]

\* The settings that enter the definition, as _EXECUTOR_PLUGIN_DEFAULTS has
\* them; vcpu and memory are counted in quarters (0.25 is 1, 0.5 is 2).
DefaultConfig ==
    [ecs_task_family_name |-> ecs_task_family_name,
     ecs_task_role_name |-> "CovalentFargateTaskRole",
     ecs_task_execution_role_name |-> "ecsTaskExecutionRole",
     ecs_task_log_group_name |-> "covalent-fargate-task-logs",
     ecr_repo_name |-> "covalent-fargate-task-images",
     vcpu |-> 1,
     memory |-> 2]

\* The configurations of the executors: the defaults, and one whole vcpu.
Configs == {DefaultConfig, [DefaultConfig EXCEPT !.vcpu = 4]}

\* str(int(x * 1024)) for x given in quarters
Units(quarters) == ToString(quarters * 256)

\* A variant of TaskDefinition: the family carries the number of the build.
TaskDefinition_Numbered(id, cfg, account, endpoint) ==
    [family |-> cfg.ecs_task_family_name \o ToString(Len(builds)),
     taskRoleArn |-> cfg.ecs_task_role_name,
     executionRoleArn |->
         "arn:aws:iam::" \o account \o ":role/" \o cfg.ecs_task_execution_role_name,
     name |-> Names(id).container,
     image |-> StripScheme(endpoint) \o "/" \o cfg.ecr_repo_name \o ":"
                   \o Names(id).image_tag,
     awslogs_group |-> cfg.ecs_task_log_group_name,
     awslogs_stream_prefix |-> "covalent-fargate",
     cpu |-> Units(cfg.vcpu),
     memory |-> Units(cfg.memory)]

\* The keyword arguments of ecs.register_task_definition(...)
TaskDefinition(id, cfg, account, endpoint) ==
    [family |-> cfg.ecs_task_family_name,
     taskRoleArn |-> cfg.ecs_task_role_name,
     executionRoleArn |->
         "arn:aws:iam::" \o account \o ":role/" \o cfg.ecs_task_execution_role_name,
     name |-> Names(id).container,
     image |-> StripScheme(endpoint) \o "/" \o cfg.ecr_repo_name \o ":"
                   \o Names(id).image_tag,
     awslogs_group |-> cfg.ecs_task_log_group_name,
     awslogs_stream_prefix |-> "covalent-fargate",
     cpu |-> Units(cfg.vcpu),
     memory |-> Units(cfg.memory)]

BuildInit ==
    /\ variant = "fargate"
    /\ NoRun
    /\ NoLocal
    /\ builds = <<>>
    /\ NoStore
    /\ NoCtor

\* One invocation of execute reaches the registration: the account and the
\* registry endpoint are what the two lookups returned to it.
build_definition(id, cfg) ==
    /\ Len(builds) < MaxBuilds
    /\ \E account \in Accounts, endpoint \in Endpoints :
          builds' = Append(builds,
                           [identity |-> id, config |-> cfg, account |-> account,
                            endpoint |-> endpoint,
                            definition |-> TaskDefinition(id, cfg, account, endpoint)])
    /\ UNCHANGED <<config, flowvars, requests, procvars, cancelvars, localvars,
                   storevars, ctorvars>>

BuildNext == \E id \in Identities, cfg \in Configs : build_definition(id, cfg)

BuildSpec == BuildInit /\ [][BuildNext]_vars

-----------------------------------------------------------------------------
(* The artifacts in the bucket.  _package_and_upload pickles the call and
   uploads it under func-<image_tag>.pkl, the script in the container
   downloads and unpickles it, calls the function, pickles the result and
   uploads it under result-<image_tag>.pkl, and _query_result downloads and
   unpickles the result.  A value is an integer, a string (a function stands
   as its name), a tuple or a dict (its items in order, each a pair); a pickle
   is the program of a stack machine that rebuilds the value. *)

\* The calls submitted: (function, args, kwargs).
Calls ==
    LET Num(i) == [t |-> "int", v |-> i]
        Str(s) == [t |-> "str", v |-> s]
        Tup(vs) == [t |-> "tuple", v |-> vs]
        Dict(items) == [t |-> "dict", v |-> items]
    IN  {Tup(<<Str("f"), Tup(<<>>), Dict(<<>>)>>),
         Tup(<<Str("f"), Tup(<<Num(2), Num(1)>>), Dict(<<>>)>>),
         Tup(<<Str("g"), Tup(<<Num(1), Num(2)>>),
               Dict(<<Tup(<<Str("k"), Num(3)>>)>>)>>)}

\* The values a function returns.
Results ==
    {[t |-> "int", v |-> 0],
     [t |-> "tuple", v |-> <<[t |-> "int", v |-> 1], [t |-> "str", v |-> "x"]>>]}

\* What goes into the call artifact: ECSExecutor pickles (function, args,
\* kwargs); FargateExecutor pickles the function alone and writes args and
\* kwargs into the text of the script.
Payload(v, call) == IF v = "ecs" THEN call ELSE call.v[1]

\* The pickle of a value without its end: a container is a mark, its items and
\* the instruction that builds it from what lies above the mark.
RECURSIVE Pickle(_)
Pickle(value) ==
    IF value.t \in {"tuple", "dict"}
    THEN LET RECURSIVE Items(_)
             Items(vs) == IF Len(vs) = 0 THEN <<>>
                          ELSE Pickle(Head(vs)) \o Items(Tail(vs))
         IN  <<[op |-> "MARK", arg |-> Nothing]>> \o Items(value.v)
                 \o <<[op |-> value.t, arg |-> Nothing]>>
    ELSE <<[op |-> "PUSH", arg |-> value]>>

\* pickle.dump
dump(value) == Pickle(value) \o <<[op |-> "STOP", arg |-> Nothing]>>

\* A variant of Reduce: the items come off the stack last first.
Reduce_Reversed(stack, tag) ==
    LET top == Len(stack)
        mark == CHOOSE i \in 1..top :
                    /\ stack[i].t = "mark"
                    /\ \A j \in (i + 1)..top : stack[j].t # "mark"
    IN  Append(SubSeq(stack, 1, mark - 1),
               [t |-> tag, v |-> [i \in 1..(top - mark) |-> stack[top + 1 - i]]])

\* The instruction that builds a container: the items above the topmost mark,
\* in the order they were pushed, replace the mark.
Reduce(stack, tag) ==
    LET top == Len(stack)
        mark == CHOOSE i \in 1..top :
                    /\ stack[i].t = "mark"
                    /\ \A j \in (i + 1)..top : stack[j].t # "mark"
    IN  Append(SubSeq(stack, 1, mark - 1),
               [t |-> tag, v |-> SubSeq(stack, mark + 1, top)])

\* The stack machine: it runs the instructions up to STOP and returns the top
\* of the stack.
RECURSIVE Unpickle(_, _)
Unpickle(ops, stack) ==
    LET o == Head(ops)
    IN  CASE o.op = "STOP" -> stack[Len(stack)]
          [] o.op = "MARK" -> Unpickle(Tail(ops), Append(stack, [t |-> "mark", v |-> 0]))
          [] o.op = "PUSH" -> Unpickle(Tail(ops), Append(stack, o.arg))
          [] OTHER -> Unpickle(Tail(ops), Reduce(stack, o.op))

\* pickle.load
load(body) == Unpickle(body, <<>>)

\* A variant of Put: the object is added next to the one stored under the key.
Put_Adds(objects, key, body) == objects \cup {[key |-> key, body |-> body]}

\* s3.upload_file: the object stored under the key is now this one.
Put(objects, key, body) ==
    {o \in objects : o.key # key} \cup {[key |-> key, body |-> body]}

\* s3.download_file: the body of the object stored under the key.
Get(objects, key) == (CHOOSE o \in objects : o.key = key).body

StoreInit ==
    /\ variant \in {"ecs", "fargate"}
    /\ NoRun
    /\ NoLocal
    /\ NoBuild
    /\ NoStore
    /\ NoCtor

StoreFrame ==
    UNCHANGED <<config, flowvars, requests, procvars, cancelvars, localvars, buildvars,
                ctorvars>>

\* _package_and_upload pickles the call of a run and uploads it.
upload_function(id, call) ==
    /\ store' = Put(store, Names(id).func, dump(Payload(variant, call)))
    /\ run' = [pc |-> "uploaded", identity |-> id, call |-> call,
               fetched |-> Nothing, result |-> Nothing, retrieved |-> Nothing]
    /\ StoreFrame

\* The script that FargateExecutor._format_exec_script writes for the
\* container: it downloads and unpickles the call artifact, calls the function,
\* and pickles and uploads what the function returned.
exec_script ==
    /\ variant = "fargate"
    /\ run.pc = "uploaded"
    /\ \E o \in store : o.key = Names(run.identity).func
    /\ \E result \in Results :
          /\ store' = Put(store, Names(run.identity).result, dump(result))
          /\ run' = [run EXCEPT !.pc = "ran",
                                !.fetched = load(Get(store, Names(run.identity).func)),
                                !.result = result]
    /\ StoreFrame

\* PYTHON_EXEC_SCRIPT, the script that ECSExecutor._format_exec_script fills in
\* for the container: it downloads and unpickles the call artifact, calls the
\* function on the arguments of the call, and pickles and uploads what the
\* function returned.
PYTHON_EXEC_SCRIPT ==
    /\ variant = "ecs"
    /\ run.pc = "uploaded"
    /\ \E o \in store : o.key = Names(run.identity).func
    /\ \E result \in Results :
          /\ store' = Put(store, Names(run.identity).result, dump(result))
          /\ run' = [run EXCEPT !.pc = "ran",
                                !.fetched = load(Get(store, Names(run.identity).func)),
                                !.result = result]
    /\ StoreFrame

\* _query_result downloads and unpickles the result artifact.
download_result ==
    /\ run.pc = "ran"
    /\ \E o \in store : o.key = Names(run.identity).result
    /\ run' = [run EXCEPT !.pc = "returned",
                          !.retrieved = load(Get(store, Names(run.identity).result))]
    /\ UNCHANGED store
    /\ StoreFrame

StoreNext ==
    \/ \E id \in Identities, call \in Calls : upload_function(id, call)
    \/ exec_script
    \/ PYTHON_EXEC_SCRIPT
    \/ download_result

StoreSpec == StoreInit /\ [][StoreNext]_vars

-----------------------------------------------------------------------------
(* The constructor.  Four of the options are followed: poll_freq, vcpu (in
   quarters of a vCPU), profile and s3_bucket_name.  An argument is given with
   a value or left out (None in ECSExecutor, whose parameters all default to
   None; FargateExecutor has no defaults and every argument is given). *)

\* get_config("executors.ecs.<option>"): the configured value of an option,
\* which is _EXECUTOR_PLUGIN_DEFAULTS unless the user's configuration says
\* otherwise.
get_config ==
    [poll_freq |-> 10, vcpu |-> 1, profile |-> "",
     s3_bucket_name |-> "covalent-fargate-task-resources"]

\* The values a caller passes for each option.
Explicit ==
    [poll_freq |-> {0, 5}, vcpu |-> {0, 4}, profile |-> {"", "dev"},
     s3_bucket_name |-> {"", "my-bucket"}]

\* The attribute the constructor sets for an option: ECSExecutor evaluates
\* `argument or get_config(...)`, FargateExecutor assigns the argument.
Attribute(v, o) ==
    IF v = "fargate" THEN arguments[o].value
    ELSE IF arguments[o].given /\ arguments[o].value # Falsy[o]
         THEN arguments[o].value
         ELSE get_config[o]

CtorInit ==
    /\ variant \in {"ecs", "fargate"}
    /\ NoRun
    /\ NoLocal
    /\ NoBuild
    /\ NoStore
    /\ LET Passed(o) == {[given |-> TRUE, value |-> x] : x \in Explicit[o]}
                            \cup {[given |-> FALSE, value |-> Falsy[o]]}
       IN  arguments \in [poll_freq : Passed("poll_freq"), vcpu : Passed("vcpu"),
                          profile : Passed("profile"),
                          s3_bucket_name : Passed("s3_bucket_name")]
    /\ variant = "fargate" => \A o \in DOMAIN Falsy : arguments[o].given
    /\ self = <<>>

\* __init__
init ==
    /\ self = <<>>
    /\ self' = <<[o \in DOMAIN Falsy |-> Attribute(variant, o)]>>
    /\ UNCHANGED <<config, flowvars, requests, procvars, cancelvars, localvars, buildvars,
                   storevars, arguments>>

CtorSpec == CtorInit /\ [][init]_vars

-----------------------------------------------------------------------------
(* Properties *)

\* The poll loop ended by returning or by the exit-code failure.
PollEnded ==
    \/ pc = "query_result"
    \/ pc = "done" /\ n.download > 0
    \/ pc = "done" /\ outcome.exc = "TaskFailed"

\* The tracked handle is on some page of the listing.
Listed == task_arn \in ListedArns(pages)

\* The tracked handle is on a page that no empty page precedes.
Visible ==
    \E i \in DOMAIN pages :
        /\ task_arn \in ArnsOf(pages[i])
        /\ \A j \in 1..i : pages[j] # <<>>

\* The service's record of the tracked task carries an exit code.
HasExitCode ==
    /\ tasks[task_arn].hasContainers
    /\ tasks[task_arn].containers # <<>>
    /\ tasks[task_arn].containers[1].hasExitCode

\* The last status query returned a value (the service's state is the one it
\* saw: nothing changes it after the last query).
QueryReturned == n.get_status >= 1 /\ outcome.exc \notin {"ClientError", "IndexError"}

\* C1: the poll loop ends, by returning or by the exit-code failure, only when
\* the last status query returned STOPPED for the tracked handle (which the
\* service lists as STOPPED); after a reply with any other status the loop
\* sleeps poll_freq and queries again.
C1_PollEndsOnlyOnStopped ==
    /\ [](PollEnded =>
            /\ status = "STOPPED"
            /\ Listed
            /\ tasks[task_arn].lastStatus = "STOPPED")
    /\ [][(pc = "loop" /\ status # "STOPPED") =>
            /\ slept' = slept \cup {poll_freq}
            /\ n'.sleep = Inc(n.sleep)
            /\ n'.get_status = Inc(n.get_status)
            /\ \/ pc' = "loop"
               \/ pc' = "done" /\ outcome'.exc \in {"ClientError", "IndexError"}]_vars

\* C1 witness: the loop ended after at least one reply that was not STOPPED.
C1_Witness ==
    /\ pc = "query_result"
    /\ n.not_stopped >= 1
    /\ n.sleep >= 1
    /\ status = "STOPPED"

\* C2: once STOPPED is observed the exit code decides: any exit code other than
\* 0 (the -1 sentinel too) ends the run with the failure carrying that exit
\* code, exit code 0 lets the poll loop return without raising; a result is
\* returned only after exit code 0.
C2_ExitCodeDecides ==
    /\ [][(pc = "loop" /\ status = "STOPPED") =>
            IF exit_code # 0
            THEN pc' = "done" /\ outcome' = Raised("TaskFailed", exit_code)
            ELSE pc' = "query_result" /\ outcome' = NoOutcome]_vars
    /\ [](outcome.result = "RESULT" => status = "STOPPED" /\ exit_code = 0)
    /\ [](outcome.exc = "TaskFailed" =>
            status = "STOPPED" /\ exit_code # 0 /\ outcome.code = exit_code)

\* C2 witness: a task stopped without an exit code; the run failed with -1.
C2_Witness ==
    /\ pc = "done"
    /\ outcome.exc = "TaskFailed"
    /\ outcome.code = -1
    /\ status = "STOPPED"

\* C3: the result is downloaded (and the logs are read) only after a status
\* query returned STOPPED with exit code 0; a run that failed on the exit code
\* made no download and no log call.
C3_DownloadOnlyAfterSuccess ==
    /\ (n.download > 0 \/ n.logs > 0) =>
          /\ n.get_status >= 1
          /\ status = "STOPPED"
          /\ exit_code = 0
    /\ (status = "STOPPED" /\ exit_code # 0) => (n.download = 0 /\ n.logs = 0)
    /\ outcome.exc = "TaskFailed" => (n.download = 0 /\ n.logs = 0)

\* C3 witness: the result was downloaded and returned.
C3_Witness ==
    /\ n.download = 1
    /\ outcome.kind = "returned"
    /\ outcome.result = "RESULT"

\* The order of the steps of one flow.
StepOrder == <<"upload", "register", "run_task", "get_status", "download">>

\* C4: the steps of a flow occur in the order upload, registration, launch,
\* first status query, result download, and upload, registration, launch and
\* download are each made at most once.
C4_StepOrder ==
    /\ Len(calls) <= Len(StepOrder)
    /\ \A i \in DOMAIN calls : calls[i] = StepOrder[i]
    /\ n.upload <= 1
    /\ n.register <= 1
    /\ n.run_task <= 1
    /\ n.download <= 1
    /\ n.upload = (IF Len(calls) >= 1 THEN 1 ELSE 0)
    /\ n.register = (IF Len(calls) >= 2 THEN 1 ELSE 0)
    /\ n.run_task = (IF Len(calls) >= 3 THEN 1 ELSE 0)
    /\ n.download = (IF Len(calls) >= 5 THEN 1 ELSE 0)

\* C4 witness: a run that made all five steps.
C4_Witness == pc = "done" /\ calls = StepOrder

\* C5 as claimed: a run that ends either raises, or returns a result after a
\* task was launched and observed STOPPED with exit code 0.
C5_OneOutcome ==
    pc = "done" =>
        \/ outcome.kind = "raised"
        \/ /\ outcome.kind = "returned"
           /\ outcome.result = "RESULT"
           /\ n.run_task = 1
           /\ status = "STOPPED"
           /\ exit_code = 0

\* C6 as claimed: if the listing of stopped tasks from some point on contains
\* the tracked handle with lastStatus STOPPED, the run eventually ends.
C6_ListedStoppedEnds ==
    (<>[](Listed /\ tasks[task_arn].lastStatus = "STOPPED")) => <>(pc = "done")

\* C6, amended: a handle that a status query can see (on a page that no empty
\* page precedes) with lastStatus STOPPED leads to the end of the run; and the
\* poll loop ends without a STOPPED reply only by an error of a status query,
\* however many queries it has made.
C6_VisibleStoppedEnds ==
    /\ (pc \in {"poll", "loop"} /\ Visible /\ tasks[task_arn].lastStatus = "STOPPED")
          ~> (pc = "done")
    /\ []((n.get_status >= 1 /\ pc # "loop" /\ status # "STOPPED") =>
            /\ pc = "done"
            /\ outcome.kind = "raised"
            /\ outcome.exc \in {"ClientError", "IndexError"})

\* C6 witness: the loop is still polling after the counters stopped counting,
\* and then sees the stopped task.
C6_Witness ==
    /\ pc = "loop"
    /\ n.not_stopped = MaxCount
    /\ Visible
    /\ status = "STOPPED"

\* C7: the poll loop makes one query before any wait and one wait of poll_freq
\* before every later query; when it ends in success after k replies that were
\* not STOPPED it has made k + 1 queries and k waits.
C7_QueryAndWaitCounts ==
    /\ n.get_status = 0 => (n.sleep = 0 /\ slept = {})
    /\ (n.get_status >= 1 /\ n.get_status < MaxCount) => n.sleep = n.get_status - 1
    /\ slept \subseteq {poll_freq}
    /\ n.sleep >= 1 => slept = {poll_freq}
    /\ (pc = "query_result" /\ n.get_status < MaxCount) =>
          /\ n.get_status = n.not_stopped + 1
          /\ n.sleep = n.not_stopped

\* C7 witness: one reply that was not STOPPED, then STOPPED with exit code 0:
\* two queries and one wait.
C7_Witness ==
    /\ pc = "query_result"
    /\ n.not_stopped = 1
    /\ n.get_status = 2
    /\ n.sleep = 1
    /\ slept = {poll_freq}
    /\ exit_code = 0

\* C8 as claimed: the status query reports one of three states, and
\* IN_PROGRESS for every lastStatus other than STOPPED.
C8_ThreeStates ==
    (pc = "loop" /\ QueryReturned) =>
        /\ status \in {"TASK_NOT_FOUND", "IN_PROGRESS", "STOPPED"}
        /\ (Visible /\ tasks[task_arn].lastStatus # "STOPPED") => status = "IN_PROGRESS"

\* C8, amended: the status query returns the lastStatus of the tracked task as
\* the service reports it, whatever it is, with the exit code of its first
\* container (-1 without one), and ("TASK_NOT_FOUND", -1) when it does not see
\* the handle.
C8_RawStatus ==
    (pc = "loop" /\ QueryReturned) =>
        IF Visible
        THEN /\ status = tasks[task_arn].lastStatus
             /\ exit_code = (IF HasExitCode THEN tasks[task_arn].containers[1].exitCode
                             ELSE -1)
        ELSE /\ status = "TASK_NOT_FOUND"
             /\ exit_code = -1

\* C8 witness: a status query returned a lastStatus that is neither STOPPED nor
\* a lifecycle state.
C8_Witness ==
    /\ pc = "loop"
    /\ Visible
    /\ status = "FAILED"
    /\ tasks[task_arn].lastStatus = "FAILED"

\* C9 as claimed: when the tracked task is found and its record has no exit
\* code (no container list, an empty one, or a first container without exit
\* code), the status query yields exit code -1 and raises nothing.
C9_MissingExitCodeDefaults ==
    (n.get_status >= 1 /\ outcome.exc # "ClientError" /\ Visible /\ ~HasExitCode) =>
        /\ outcome.exc # "IndexError"
        /\ exit_code = -1

\* C10: when no page of the listing contains the tracked handle, the status
\* query returns ("TASK_NOT_FOUND", -1) and raises nothing.
C10_NotFound ==
    (n.get_status >= 1 /\ outcome.exc # "ClientError" /\ ~Listed) =>
        /\ pc = "loop"
        /\ status = "TASK_NOT_FOUND"
        /\ exit_code = -1
        /\ outcome = NoOutcome

\* C10 witness: a status query on a listing without pages.
C10_Witness ==
    /\ pc = "loop"
    /\ n.get_status >= 1
    /\ pages = <<>>
    /\ status = "TASK_NOT_FOUND"

\* C11: a not-found reply never ends the poll loop and never produces the
\* exit-code failure: after it the loop sleeps poll_freq and makes another
\* query, as after any reply that is not STOPPED; the next query's own error
\* is the only other way on.
C11_NotFoundPollsAgain ==
    /\ [][(pc = "loop" /\ status = "TASK_NOT_FOUND") =>
            /\ slept' = slept \cup {poll_freq}
            /\ n'.sleep = Inc(n.sleep)
            /\ n'.get_status = Inc(n.get_status)
            /\ n'.download = n.download
            /\ \/ pc' = "loop" /\ outcome' = NoOutcome
               \/ pc' = "done" /\ outcome'.exc \in {"ClientError", "IndexError"}]_vars
    /\ [](outcome.exc = "TaskFailed" => status # "TASK_NOT_FOUND")
    /\ [](status = "TASK_NOT_FOUND" => n.download = 0)

\* C11 witness: the loop is still polling after MaxCount replies none of which
\* was STOPPED, the last of them not-found.
C11_Witness ==
    /\ pc = "loop"
    /\ status = "TASK_NOT_FOUND"
    /\ ~Listed
    /\ n.get_status = MaxCount
    /\ n.not_stopped = MaxCount
    /\ outcome = NoOutcome

\* The requests of one kind the service received.
RequestsOf(op) == {i \in DOMAIN requests : requests[i].op = op}

\* C12: a run sends at most one registration and at most one launch request,
\* the launch after the registration, for one instance of launch type FARGATE;
\* a run that reached the poll loop has sent exactly one of each, whatever the
\* status replies and errors were.
C12_OneLaunch ==
    /\ Cardinality(RequestsOf("register_task_definition")) = n.register
    /\ Cardinality(RequestsOf("run_task")) = n.run_task
    /\ n.register <= 1
    /\ n.run_task <= 1
    /\ \A i \in RequestsOf("run_task") :
          /\ requests[i].count = 1
          /\ requests[i].launchType = "FARGATE"
          /\ \E j \in RequestsOf("register_task_definition") : j < i
    /\ n.get_status >= 1 => (n.register = 1 /\ n.run_task = 1)

\* C12 witness: a run that ended after several status replies, with one
\* registration and one launch.
C12_Witness ==
    /\ pc = "done"
    /\ n.not_stopped >= 2
    /\ Len(requests) = 2
    /\ requests[2].op = "run_task"

\* C13 as claimed: the task a flow launched runs the task-definition revision
\* that this flow registered, whatever other flows registered in between.
C13_OwnRevision == \A f \in Flows : launched[f] \in {"", f}

\* C14 as claimed: every remote call of a flow runs under the credentials file
\* and profile of the flow's own executor, whatever the other flows did.
C14_OwnSettings == \A f \in Flows : used[f] # <<>> => used[f][2] = settings[f]

\* C15 as claimed: while a flow waits between two polls, every other flow that
\* has not ended can take a step.
C15_SleepYields ==
    \A f, g \in Flows :
        (f # g /\ fpc[f] = "sleep" /\ fpc[g] # "done") => ENABLED FlowStep(g)

\* C16 as claimed: two flows with distinct task identities derive distinct
\* call-artifact names, result-artifact names, image tags and container names.
C16_DistinctNames ==
    \A f, g \in Flows :
        (f # g /\ identity[f] # identity[g] /\ names[f] # NoNames /\ names[g] # NoNames) =>
            /\ names[f].func # names[g].func
            /\ names[f].result # names[g].result
            /\ names[f].image_tag # names[g].image_tag
            /\ names[f].container # names[g].container

\* The settings that pass the format check: 'subnet-' or 'sg-' followed by
\* eight hex digits.
WellFormed(net) == net[1] = "subnet-871545e1" /\ net[2] = "sg-0043541a"

\* C20 as claimed: with a malformed subnet or security-group identifier no
\* registration and no launch request is sent.
C20_MalformedNotSent == ~WellFormed(network) => requests = <<>>

\* The values a successful run returns: the result with the formatted logs.
SuccessValues == {Returned("RESULT", FormatLogs(events), "") : events \in LogEvents}

\* C17: when the service ignores stop requests, a cancel called at any point
\* of the poll loop changes nothing the loop reads or has: the loop ends only
\* on STOPPED with exit code 0, never with the exit-code failure, and a run
\* that returns returns the value it returns without the cancel.
C17_CancelLeavesPollAlone ==
    /\ [][cancels' # cancels => UNCHANGED flowvars]_vars
    /\ [](~honours =>
            /\ outcome.exc # "TaskFailed"
            /\ PollEnded => (status = "STOPPED" /\ exit_code = 0)
            /\ outcome.kind = "returned" => outcome \in SuccessValues)

\* C17 witness: cancel was called for the polled handle while the loop was
\* running, the service ignored it, and the run returned its result.
C17_Witness ==
    /\ ~honours
    /\ cancels # <<>>
    /\ cancels[1].task = task_arn
    /\ cancels[1].at = "loop"
    /\ pc = "done"
    /\ outcome \in SuccessValues

\* The stop requests the service received, in order.
StopRequests == SelectSeq(requests, LAMBDA r : r.op = "stop_task")

\* C18: every call of cancel sends one stop request, for the configured
\* cluster, the handle and the reason it was given, and makes no status query
\* and no wait: the task may still be running when it has returned.
C18_CancelSendsOneStop ==
    /\ [](/\ Len(StopRequests) = Len(cancels)
          /\ \A i \in DOMAIN cancels :
                /\ StopRequests[i].cluster = ecs_cluster_name
                /\ StopRequests[i].name = cancels[i].task
                /\ StopRequests[i].reason = cancels[i].reason)
    /\ [][cancels' # cancels =>
            /\ Len(requests') = Len(requests) + 1
            /\ n' = n
            /\ slept' = slept
            /\ tasks' = tasks]_vars

\* C18 witness: cancel has returned for the polled handle with a reason of the
\* caller's, and the task is still running.
C18_Witness ==
    /\ Len(cancels) = 1
    /\ cancels[1].task = task_arn
    /\ cancels[1].reason = "timeout"
    /\ tasks[task_arn].lastStatus = "RUNNING"
    /\ pc = "loop"

\* The service stopped the polled task after a cancel, with a nonzero exit code
\* or none.
CancelledAndStopped ==
    /\ \E i \in DOMAIN cancels : cancels[i].task = task_arn
    /\ tasks[task_arn] \in StoppedOnRequest

HexBody(c, k) == Len(c.body) = k /\ \A i \in DOMAIN c.body : c.body[i] \in HexDigits

\* The verdict a check gives on a candidate put together from a prefix and a
\* hex string: accepted with the check's own prefix and eight hex characters,
\* rejected with seven, rejected with any other prefix.
Expected(prefix) ==
    /\ (candidate.prefix = prefix /\ HexBody(candidate, 8)) => verdict.ok
    /\ (candidate.prefix = prefix /\ HexBody(candidate, 7)) => ~verdict.ok
    /\ candidate.prefix # prefix => ~verdict.ok

\* C21: the subnet check accepts "subnet-" followed by eight hex characters and
\* rejects seven hex characters after the prefix and an identifier without the
\* prefix; the security-group check does the same with "sg-".
C21_FormatCheck ==
    /\ verdict.check = "subnet" => Expected(SubnetPrefix)
    /\ verdict.check = "security_group" => Expected(GroupPrefix)

\* C21 witness: the subnet check has rejected "subnet-871545e", which has only
\* seven hex characters after the prefix.
C21_Witness ==
    /\ verdict = [check |-> "subnet", ok |-> FALSE]
    /\ candidate.prefix = SubnetPrefix
    /\ candidate.body = <<"8", "7", "1", "5", "4", "5", "e">>

\* The caller identity did not resolve to an account: ECSExecutor got an
\* identity without an account and returned it; FargateExecutor found no
\* "Account" in the identity.
Unresolved == outcome.stderr = "identity" \/ outcome.exc = "KeyError"

\* C22 as claimed: when the caller identity cannot be resolved to an account the
\* run ends in a failure outcome and has made no upload, no registration, no
\* launch and no status query.
C22_AuthFailureAborts ==
    (pc = "done" /\ Unresolved) =>
        /\ outcome.kind = "raised"
        /\ n.upload = 0
        /\ n.register = 0
        /\ n.run_task = 0
        /\ n.get_status = 0

\* The run failed at the registration (no launch followed it) or at the launch
\* (it gave no task handle).
SubmissionRejected ==
    /\ outcome.kind = "raised"
    /\ \/ n.register >= 1 /\ n.run_task = 0
       \/ n.run_task >= 1 /\ task_arn = ""

\* C23: when the registration or the launch is rejected, the run has ended in
\* failure, the rejected call was made once, and no status query, wait, result
\* download or log retrieval was made.
C23_RejectionAborts ==
    SubmissionRejected =>
        /\ pc = "done"
        /\ n.register = 1
        /\ n.run_task <= 1
        /\ Cardinality(RequestsOf("register_task_definition")) = 1
        /\ Cardinality(RequestsOf("run_task")) = n.run_task
        /\ n.get_status = 0
        /\ n.sleep = 0
        /\ n.download = 0
        /\ n.logs = 0

\* C23 witness: the service rejected the launch after accepting the
\* registration.
C23_Witness ==
    /\ SubmissionRejected
    /\ outcome = Raised("ClientError", 0)
    /\ n.register = 1
    /\ n.run_task = 1

\* The run failed in _package_and_upload: nothing was registered after it, and
\* the error is one that _package_and_upload raises.
UploadFailed ==
    /\ outcome.kind = "raised"
    /\ outcome.exc \in {"ClientError", "TypeError", "DockerError"}
    /\ n.upload >= 1
    /\ n.register = 0
    /\ requests = <<>>

\* C24: when the call-artifact upload fails, the run has ended in failure, the
\* upload was made once, and no task definition was registered and no task
\* launched.
C24_UploadFailureAborts ==
    UploadFailed =>
        /\ pc = "done"
        /\ n.upload = 1
        /\ n.run_task = 0
        /\ n.get_status = 0

\* C24 witness: the object store refused the upload and the run ended there.
C24_Witness ==
    /\ UploadFailed
    /\ outcome = Raised("ClientError", 0)
    /\ calls = <<"upload">>
    /\ pc = "done"

\* The run failed on the client's error in a status query.
StatusQueryFailed ==
    /\ outcome.exc = "ClientError"
    /\ calls # <<>>
    /\ calls[Len(calls)] = "get_status"

\* C25: an error of the listing or describe call in a status query ends the run
\* in failure: the step that fails assigns no status (not TASK_NOT_FOUND
\* either), every status the loop goes on with is the one get_status computes
\* from the service's answer, and after the failure no step follows and no
\* result is fetched.
C25_ApiErrorPropagates ==
    /\ [][(pc \in {"poll", "loop"} /\ pc' = "loop") =>
            LET reply == get_status(tasks', pages', task_arn)
            IN  /\ reply.raised = ""
                /\ status' = reply.status
                /\ exit_code' = reply.exit_code]_vars
    /\ [][(pc \in {"poll", "loop"} /\ outcome'.exc = "ClientError") =>
            /\ pc' = "done"
            /\ status' = status
            /\ exit_code' = exit_code]_vars
    /\ [](StatusQueryFailed =>
            /\ pc = "done"
            /\ outcome.kind = "raised"
            /\ n.download = 0
            /\ n.logs = 0
            /\ ~ENABLED Flow)

\* C25 witness: the first query did not find the task, the second failed, and
\* the run ended there with the status of the first query.
C25_Witness ==
    /\ StatusQueryFailed
    /\ n.get_status = 2
    /\ n.sleep = 1
    /\ status = "TASK_NOT_FOUND"
    /\ pc = "done"

\* C26 as claimed: once the result has been downloaded and read, a failure of
\* the log call does not fail the run: it returns the result value, with empty
\* log text when there are no logs.
C26_LogsBestEffort ==
    (pc = "done" /\ n.logs >= 1) =>
        /\ outcome.kind = "returned"
        /\ outcome.result = "RESULT"

\* C27 as claimed: after result retrieval has ended, by returning the value or
\* by failing, the local staging copy of the result artifact does not exist.
C27_StagingCopyRemoved ==
    (pc = "done" /\ n.download >= 1) => ~local_result

\* _package_and_upload has returned or raised.
UploadEnded == upc \in {"returned", "failed"}

Formatted == cursor = Len(stream)

\* C29: the formatted log text is each event's message followed by one newline,
\* in the order of the stream: nothing for no events, "hello\nworld\n" for the
\* events hello and world, and so for every stream of one, two or three events.
C29_LogText ==
    Formatted =>
        /\ stream = <<>> => log_events = ""
        /\ stream = <<"hello", "world">> => log_events = "hello\nworld\n"
        /\ stream = <<"world", "hello">> => log_events = "world\nhello\n"
        /\ \A a \in Messages : stream = <<a>> => log_events = a \o "\n"
        /\ \A a, b \in Messages :
              stream = <<a, b>> => log_events = a \o "\n" \o b \o "\n"
        /\ \A a, b, c \in Messages :
              stream = <<a, b, c>> => log_events = a \o "\n" \o b \o "\n" \o c \o "\n"

\* C29 witness: the events hello and world have been formatted.
C29_Witness ==
    /\ Formatted
    /\ stream = <<"hello", "world">>
    /\ log_events = "hello\nworld\n"
    /\ cursor = 2

\* The flow has derived its names.
Derived(f) == names[f] # NoNames

\* C30: the call-artifact name, the result-artifact name and the container name
\* are a function of (dispatch_id, node_id) alone: two invocations with the same
\* identity derive the same names, whatever their executors' settings and
\* whatever ran before them, the names of ("a", 1) are the ones the f-strings
\* spell, and the names of an invocation do not change while it runs.
C30_NamesDeterministic ==
    /\ [](\A f, g \in Flows :
            (identity[f] = identity[g] /\ Derived(f) /\ Derived(g)) =>
                names[f] = names[g])
    /\ [](\A f \in Flows :
            (identity[f] = <<"a", 1>> /\ Derived(f)) =>
                names[f] = [func |-> "func-a-1.pkl", result |-> "result-a-1.pkl",
                            image_tag |-> "a-1", container |-> "covalent-task-a-1"])
    /\ [][\A f \in Flows : Derived(f) => names'[f] = names[f]]_vars

\* C30 witness: two invocations with the same identity, on executors with
\* different settings, have both derived their names, the second after the
\* first changed the process environment.
C30_Witness ==
    /\ identity["f1"] = identity["f2"]
    /\ settings["f1"] # settings["f2"]
    /\ Derived("f1")
    /\ Derived("f2")
    /\ names["f1"] = names["f2"]
    /\ names["f1"].container = "covalent-task-a--1"

Stored(key) == load(Get(store, key))

C33_OneArtifactPerIdentity ==
    /\ \A id \in Identities :
          /\ Cardinality({o \in store : o.key = Names(id).func}) <= 1
          /\ Cardinality({o \in store : o.key = Names(id).result}) <= 1
    /\ run.pc = "uploaded" =>
          {o.body : o \in {x \in store : x.key = Names(run.identity).func}}
              = {dump(Payload(variant, run.call))}

\* A run has uploaded the call of an identity whose result artifact an earlier
\* run left in the bucket.
C33_Witness ==
    /\ run.pc = "uploaded"
    /\ \E o \in store : o.key = Names(run.identity).result
    /\ Cardinality({o \in store : o.key = Names(run.identity).func}) = 1

\* C34: for every option, the executor uses the value that was passed to the
\* constructor when one was passed, whatever the value, 0 and the empty string
\* included, and the configured default when none was passed.
C34_ExplicitValueUsed ==
    Len(self) = 1 =>
        \A o \in DOMAIN Falsy :
            self[1][o] = IF arguments[o].given THEN arguments[o].value ELSE get_config[o]

\* C35: the error of a run whose task stopped with a nonzero exit code names
\* the handle of the task that failed, next to the exit code.
C35_FailureNamesHandle ==
    (pc = "done" /\ outcome.exc = "TaskFailed") =>
        LET text == TaskFailedMessage(outcome.code)
        IN  /\ \E i \in DOMAIN text : text[i] = ToString(outcome.code)
            /\ \E i \in DOMAIN text : text[i] = task_arn

\* C36: the status query reads no page after the first empty one: when the
\* tracked handle is listed only on a page that an empty page precedes, the
\* query replies ("TASK_NOT_FOUND", -1), whatever the state of the task.
C36_EmptyPageStops ==
    (pc = "loop" /\ Listed /\ ~Visible) =>
        /\ status = "TASK_NOT_FOUND"
        /\ exit_code = -1
        /\ outcome = NoOutcome

\* C36 witness: the tracked task has stopped and is listed on the page after
\* an empty page; the query replied that it was not found.
C36_Witness ==
    /\ pc = "loop"
    /\ pages = <<<<>>, <<task_arn>>>>
    /\ tasks[task_arn].lastStatus = "STOPPED"
    /\ n.get_status >= 2
    /\ status = "TASK_NOT_FOUND"

\* C37: whatever else is listed, on whatever pages, a status other than
\* TASK_NOT_FOUND and the exit code that the status query returns are those of
\* the task whose handle is the tracked one, and the poll loop ends only when
\* that task has stopped, never because the other flow's task has.
C37_OwnTaskOnly ==
    /\ (pc = "loop" /\ status # "TASK_NOT_FOUND") =>
          /\ Visible
          /\ status = tasks[task_arn].lastStatus
          /\ exit_code = ExitCodeOf(tasks[task_arn]).exit_code
    /\ (PollEnded /\ OtherArn \in ListedArns(pages)) =>
          tasks[task_arn].lastStatus = "STOPPED"

\* C37 witness: the other flow's stopped task is listed before the tracked
\* task, which is running; the query returned RUNNING and the loop goes on.
C37_Witness ==
    /\ pc = "loop"
    /\ pages \in {<<<<OtherArn>>, <<task_arn>>>>, <<<<OtherArn, task_arn>>>>}
    /\ tasks[OtherArn].lastStatus = "STOPPED"
    /\ tasks[task_arn].lastStatus = "RUNNING"
    /\ status = "RUNNING"
    /\ exit_code = ExitCodeOf(tasks[task_arn]).exit_code

\* C38: the handle the poll loop asks about is the handle that the launch call
\* of this run returned: once a status query has been made the run has launched
\* exactly one task, task_arn is the handle of that task and not of a task that
\* was there before, and the reply the loop holds is the reply of the status
\* query for that handle.
C38_PollsLaunchedHandle ==
    n.get_status >= 1 =>
        /\ n.run_task = 1
        /\ Cardinality(RequestsOf("run_task")) = 1
        /\ task_arn # OtherArn
        /\ tasks[task_arn].exists
        /\ pc = "loop" =>
              [raised |-> "", status |-> status, exit_code |-> exit_code]
                  = get_status(tasks, pages, task_arn)

\* C38 witness: both handles are listed, the other flow's task has stopped with
\* exit code 0, and the loop holds the status of the launched task, which failed.
C38_Witness ==
    /\ pc = "loop"
    /\ n.get_status >= 1
    /\ {task_arn, OtherArn} \subseteq ListedArns(pages)
    /\ Visible
    /\ task_arn # OtherArn
    /\ status = "STOPPED"
    /\ exit_code = 1

\* C39: an exit code that came with a status other than STOPPED decides
\* nothing: after such a reply the run neither fails on the exit code nor goes
\* on to the result, and the exit code on which the loop fails or succeeds is
\* the one the STOPPED reply carried, that of the stopped task's record, so a
\* task reported (RUNNING, 1) and then (STOPPED, 0) succeeds.
C39_StoppedReplyDecides ==
    /\ [][(pc = "loop" /\ status # "STOPPED") =>
            /\ outcome'.exc # "TaskFailed"
            /\ pc' # "query_result"
            /\ (pc' = "loop" /\ status' = "STOPPED") =>
                  exit_code' = ExitCodeOf(tasks'[task_arn]).exit_code]_vars
    /\ [](outcome.exc = "TaskFailed" =>
            /\ tasks[task_arn].lastStatus = "STOPPED"
            /\ outcome.code = ExitCodeOf(tasks[task_arn]).exit_code)
    /\ [](pc = "query_result" =>
            /\ tasks[task_arn].lastStatus = "STOPPED"
            /\ ExitCodeOf(tasks[task_arn]).exit_code = 0)

\* C39 witness: the status query replied (RUNNING, 1) and the loop is still
\* polling, nothing decided.
C39_Witness ==
    /\ pc = "loop"
    /\ status = "RUNNING"
    /\ exit_code = 1
    /\ outcome = NoOutcome
    /\ ENABLED poll_iteration
    /\ ~ENABLED poll_finish

====
